---------------------------- MODULE Spec2Model ----------------------------
(***************************************************************************)
(* A model of exif-date-organizer.py: the folder renamer that dates every  *)
(* top-level folder of a root by the majority date of its media files.     *)
(*                                                                         *)
(* Strings are sequences of one-character strings, so that the regular     *)
(* expression, the case transforms, the " (n)" suffix and the sort order   *)
(* are computed character by character, as Python computes them.          *)
(***************************************************************************)
EXTENDS Integers, Sequences, FiniteSets, TLC

\* ------------------------------------------------------------- bounds

\* The largest number of entries the root holds in an initial tree.
MaxFolders == 2

\* The number of invocations of the script over the same root in a behaviour.
MaxRuns == 2

\* ------------------------------------------------------------ characters

\* The characters of the model, in code point order (what sorted() compares).
Alphabet ==
    << " ", "(", ")", "-", ".", "/",
       "0", "1", "2", "3", "4", "5", "6", "7", "8", "9",
       "B", "E", "N", "T", "V",
       "b", "e", "n", "t", "v" >>

Ord(c) == CHOOSE i \in 1..Len(Alphabet) : Alphabet[i] = c

Digits == {"0", "1", "2", "3", "4", "5", "6", "7", "8", "9"}

Whitespace == {" "}

\* str(n) for 0 <= n <= 9, and the zero padding of %m and %d.
DigitChar(n) == Alphabet[Ord("0") + n]

RECURSIVE Str(_)
Str(n) == IF n < 10 THEN <<DigitChar(n)>> ELSE Str(n \div 10) \o <<DigitChar(n % 10)>>

RECURSIVE Pad(_, _)
Pad(s, width) == IF Len(s) >= width THEN s ELSE Pad(<<"0">> \o s, width)

\* str.upper and str.lower on one character.
UpperOf(c) ==
    CASE c = "b" -> "B" [] c = "e" -> "E" [] c = "n" -> "N"
      [] c = "t" -> "T" [] c = "v" -> "V" [] OTHER -> c

LowerOf(c) ==
    CASE c = "B" -> "b" [] c = "E" -> "e" [] c = "N" -> "n"
      [] c = "T" -> "t" [] c = "V" -> "v" [] OTHER -> c

IsCased(c) == UpperOf(c) # c \/ LowerOf(c) # c

Upper(s) == [i \in 1..Len(s) |-> UpperOf(s[i])]

Lower(s) == [i \in 1..Len(s) |-> LowerOf(s[i])]

\* str.title: a cased character is upper-cased after an uncased one (or at
\* the start) and lower-cased after a cased one.
Title(s) ==
    [i \in 1..Len(s) |->
        IF i > 1 /\ IsCased(s[i - 1]) THEN LowerOf(s[i]) ELSE UpperOf(s[i])]

\* str.capitalize: the first character upper-cased, the rest lower-cased.
Capitalize(s) ==
    [i \in 1..Len(s) |-> IF i = 1 THEN UpperOf(s[i]) ELSE LowerOf(s[i])]

\* str.strip: whitespace removed at both ends.
RECURSIVE LStrip(_)
LStrip(s) ==
    IF s # <<>> /\ Head(s) \in Whitespace THEN LStrip(Tail(s)) ELSE s

RECURSIVE RStrip(_)
RStrip(s) ==
    IF s # <<>> /\ s[Len(s)] \in Whitespace
    THEN RStrip(SubSeq(s, 1, Len(s) - 1))
    ELSE s

Strip(s) == LStrip(RStrip(s))

\* Python's < on strings: the first differing character decides, a proper
\* prefix is smaller.
RECURSIVE StrLess(_, _)
StrLess(a, b) ==
    IF b = <<>> THEN FALSE
    ELSE IF a = <<>> THEN TRUE
    ELSE IF Head(a) # Head(b) THEN Ord(Head(a)) < Ord(Head(b))
    ELSE StrLess(Tail(a), Tail(b))

\* sorted(): the strings of a set in ascending order.
RECURSIVE Sorted(_)
Sorted(S) ==
    IF S = {} THEN <<>>
    ELSE LET m == CHOOSE x \in S : \A y \in S \ {x} : StrLess(x, y)
         IN  <<m>> \o Sorted(S \ {m})

\* ------------------------------------------------------------- config

\* The names of IGNORED_DIRS the model's alphabet can spell.
IGNORED_DIRS == { <<"v", "e", "n", "v">> }

\* The characters the pattern ^[\d\.\-\/\s]+ removes from the front.
LeadingClass == Digits \cup {".", "-", "/"} \cup Whitespace

RECURSIVE DropLeading(_)
DropLeading(s) ==
    IF s # <<>> /\ Head(s) \in LeadingClass THEN DropLeading(Tail(s)) ELSE s

\* clean_folder_name_regex(foldername, case_type).
clean_folder_name_regex(foldername, case_type) ==
    LET cleaned == Strip(DropLeading(foldername))
    IN  IF cleaned = <<>> THEN foldername
        ELSE CASE case_type = "upper" -> Upper(cleaned)
               [] case_type = "lower" -> Lower(cleaned)
               [] case_type = "title" -> Title(cleaned)
               [] case_type = "sentence" -> Capitalize(cleaned)
               [] OTHER -> Title(cleaned)

\* ----------------------------------------------------------- metadata

\* The adapters' answer for a file with no obtainable date (None).
NoDate == [y |-> 0, m |-> 0, d |-> 0]

\* date_obj.strftime("%Y-%m-%d"): glibc pads %m and %d to two digits and
\* leaves %Y as it is.
Strftime(date) ==
    Str(date.y) \o <<"-">> \o Pad(Str(date.m), 2) \o <<"-">> \o Pad(Str(date.d), 2)

IMAGE_EXT == {"jpg", "jpeg", "png", "tiff", "heic"}

VIDEO_EXT == {"mp4", "mov", "avi", "mkv", "3gp", "m4v"}

\* The walk of collect_dates_recursive: the files that reach all_files.
Walked(files) ==
    SelectSeq(files, LAMBDA f : f.skip = "no" /\ f.ext \in IMAGE_EXT \cup VIDEO_EXT)

\* get_date_from_image / get_date_from_video, by the file's extension.
DateOf(f) ==
    IF f.ext \in IMAGE_EXT THEN f.meta
    ELSE IF f.ext \in VIDEO_EXT THEN f.meta
    ELSE NoDate

\* date_counter[key] += 1 on a Counter kept in insertion order.
CounterAdd(counter, key) ==
    IF \E i \in 1..Len(counter) : counter[i].date = key
    THEN [i \in 1..Len(counter) |->
            IF counter[i].date = key
            THEN [counter[i] EXCEPT !.n = @ + 1]
            ELSE counter[i]]
    ELSE Append(counter, [date |-> key, n |-> 1])

\* The loop over all_files: a file with a date is counted, one without is not.
RECURSIVE CountDates(_, _)
CountDates(all_files, counter) ==
    IF all_files = <<>> THEN counter
    ELSE LET date_obj == DateOf(Head(all_files))
         IN  CountDates(Tail(all_files),
                        IF date_obj # NoDate
                        THEN CounterAdd(counter, Strftime(date_obj))
                        ELSE counter)

\* collect_dates_recursive(root_folder, non_interactive): (date_counter,
\* total_files), or (None, 0) when no file is a media file.
collect_dates_recursive(files, non_interactive) ==
    LET all_files == Walked(files)
    IN  IF all_files = <<>>
        THEN [none |-> TRUE, date_counter |-> <<>>, total_files |-> 0]
        ELSE [none |-> FALSE,
              date_counter |-> CountDates(all_files, <<>>),
              total_files |-> Len(all_files)]

\* Counter.most_common(1)[0]: the first entry, in insertion order, of the
\* largest count.
MostCommon(counter) ==
    LET i == CHOOSE k \in 1..Len(counter) :
                 /\ \A j \in 1..Len(counter) : counter[j].n <= counter[k].n
                 /\ \A j \in 1..(k - 1) : counter[j].n < counter[k].n
    IN  counter[i]

\* ----------------------------------------------------------- unique path

\* get_unique_path(base_path) against the paths that exist: the loop over
\* counter = 1, 2, ... until "base_path (counter)" is free.
RECURSIVE ProbeFrom(_, _, _)
ProbeFrom(base_path, counter, existing) ==
    LET new_path == base_path \o <<" ", "(">> \o Str(counter) \o <<")">>
    IN  IF new_path \notin existing THEN new_path
        ELSE ProbeFrom(base_path, counter + 1, existing)

\* get_unique_path without the existence test: the base path as it is.
get_unique_path_unchecked(base_path, existing) == base_path

\* get_unique_path without the loop: " (1)" is taken without a look.
get_unique_path_once(base_path, existing) ==
    IF base_path \notin existing THEN base_path
    ELSE base_path \o <<" ", "(">> \o Str(1) \o <<")">>

get_unique_path(base_path, existing) ==
    IF base_path \notin existing THEN base_path
    ELSE ProbeFrom(base_path, 1, existing)

\* ------------------------------------------------------- remote rewrite

\* The model names the models endpoint may list, and what the substring
\* tests of get_high_quota_model find in each.
HasGemma3 == {"gemma-3-12b-it", "gemma-3-27b-it", "gemma-3-4b-it"}

Has12bOr27b == {"gemma-3-12b-it", "gemma-3-27b-it"}

HasGemma == HasGemma3 \cup {"gemma-2-9b-it"}

\* The handler of get_high_quota_model: except Exception.
except_Exception_models(exc) == TRUE

\* get_high_quota_model(api_key) for one answer of the models endpoint:
\* kind "raise" (requests.get or the parsing raises), "status" (an HTTP
\* status other than 200) or "ok" (HTTP 200 listing `models`).
get_high_quota_model(answer) ==
    IF answer.kind = "raise"
    THEN [raised |-> ~except_Exception_models("Exception"), model |-> "gemma-3-12b-it"]
    ELSE IF answer.kind = "ok"
    THEN LET models == answer.models
             gemma_smart == SelectSeq(models, LAMBDA m : m \in HasGemma3 /\ m \in Has12bOr27b)
             any_gemma == SelectSeq(models, LAMBDA m : m \in HasGemma)
         IN  [raised |-> FALSE,
              model |-> IF gemma_smart # <<>> THEN gemma_smart[1]
                        ELSE IF any_gemma # <<>> THEN any_gemma[1]
                        ELSE "gemini-2.0-flash"]
    ELSE [raised |-> FALSE, model |-> "gemma-3-12b-it"]

\* One attempt more than the loop makes.
max_retries_more == 3 + 1

\* max_retries of ai_fix_spelling.
max_retries == 3

\* The characters .replace(...) removes from the service's text.
Replaced == {"\"", "'", "\n", "*"}

\* cleaned.strip().replace('"', '').replace("'", "").replace("\n", "").replace("*", "")
FinalText(cleaned) == SelectSeq(Strip(cleaned), LAMBDA c : c \notin Replaced)

\* The answer of the service to the attempt-th POST (it keeps giving its last
\* answer after the listed ones).
AnswerTo(answers, attempt) ==
    IF attempt <= Len(answers) THEN answers[attempt] ELSE answers[Len(answers)]

\* The handler around requests.post: except Exception.
except_Exception_post(exc) == TRUE

\* The loop `for attempt in range(max_retries)` of ai_fix_spelling from
\* iteration `attempt` (0-based) on. An answer is "raise" (requests.post
\* raises), "200" (with `body`, and `wellformed` when the candidates path of
\* the JSON exists), "429" or "status" (any other HTTP status).
RECURSIVE PostLoop(_, _, _, _)
PostLoop(text, answers, attempt, posts) ==
    IF attempt >= max_retries
    THEN [text |-> text, posts |-> posts, raised |-> FALSE, ok200 |-> FALSE]
    ELSE LET response == AnswerTo(answers, attempt + 1)
         IN  IF response.kind = "raise"
             THEN IF except_Exception_post("Exception")
                  THEN PostLoop(text, answers, attempt + 1, posts + 1)
                  ELSE [text |-> text, posts |-> posts + 1, raised |-> TRUE, ok200 |-> FALSE]
             ELSE IF response.kind = "200"
             THEN IF response.wellformed
                  THEN [text |-> FinalText(response.body), posts |-> posts + 1,
                        raised |-> FALSE, ok200 |-> TRUE]
                  ELSE [text |-> text, posts |-> posts + 1, raised |-> FALSE, ok200 |-> FALSE]
             ELSE IF response.kind = "429"
             THEN PostLoop(text, answers, attempt + 1, posts + 1)
             ELSE [text |-> text, posts |-> posts + 1, raised |-> FALSE, ok200 |-> FALSE]

\* ai_fix_spelling(text, api_key) with SELECTED_MODEL = selected, against a
\* service that answers the models request by service.models and the POSTs
\* by service.posts: the text returned, the number of POSTs made, the new
\* SELECTED_MODEL, and whether an exception left the function.
ai_fix_spelling(text, api_key, selected, service) ==
    IF api_key = "None"
    THEN [text |-> text, posts |-> 0, raised |-> FALSE, ok200 |-> FALSE, selected |-> selected]
    ELSE LET got == IF selected = "None"
                    THEN get_high_quota_model(service.models)
                    ELSE [raised |-> FALSE, model |-> selected]
         IN  IF got.raised
             THEN [text |-> text, posts |-> 0, raised |-> TRUE, ok200 |-> FALSE,
                   selected |-> selected]
             ELSE LET r == PostLoop(text, service.posts, 0, 0)
                  IN  [text |-> r.text, posts |-> r.posts, raised |-> r.raised,
                       ok200 |-> r.ok200, selected |-> got.model]

\* --------------------------------------------------------------- state

VARIABLES
    fs,              \* the entries of the target root: [name, isdir, files]
    args,            \* the parsed command line of the current invocation
    service,         \* how the remote service answers during the behaviour
    SELECTED_MODEL,  \* the global of the AI logic
    run,             \* the number of the current invocation
    pc,              \* where process_folders is
    subdirs,         \* the sorted snapshot of the root's directories
    idx,             \* the position of the folder loop in subdirs (1-based)
    renamed_list,
    skipped_list,
    error_list,
    report,          \* what the loop decided for each folder it has passed
    renames,         \* the os.rename calls of this invocation
    start_fs,        \* the root's entries when this invocation started
    prev,            \* the invocations before this one: live, report, renames
    call,            \* the arguments of a function applied on its own
    ret,             \* and what it returned
    cur              \* the decision of the pass in progress

vars ==
    << fs, args, service, SELECTED_MODEL, run, pc, subdirs, idx, renamed_list,
       skipped_list, error_list, report, renames, start_fs, prev, call, ret, cur >>

\* ------------------------------------------------------------- inputs

D1 == [y |-> 2023, m |-> 1, d |-> 1]

D2 == [y |-> 2023, m |-> 1, d |-> 2]

\* A file of a folder's subtree: its extension (lower-cased), the date its
\* metadata holds (NoDate when the adapter returns None), its last-modified
\* date, and whether the walk leaves it out ("file": its name holds a name of
\* IGNORED_FILES).
File(ext, meta) == [ext |-> ext, meta |-> meta, mtime |-> D2, skip |-> "no"]

Dir(name, files) == [name |-> name, isdir |-> TRUE, files |-> files]

NameT == <<"T">>

Namet == <<"t">>

NameDated == Strftime(D1) \o <<" ", "T">>

\* The entries an initial tree is made of.
Catalog ==
    { Dir(Namet, << File("jpg", D1) >>),
      Dir(Namet, << File("jpg", D1), File("jpg", D2) >>),
      Dir(NameT, << File("jpg", D2), File("mp4", D1), File("jpg", D1) >>),
      Dir(<<"1">>, << File("jpg", D1) >>),
      Dir(<<"v", "e", "n", "v">>, << File("jpg", D1) >>),
      Dir(NameDated, << >>),
      Dir(NameDated, << File("jpg", D1) >>),
      [name |-> NameDated, isdir |-> FALSE, files |-> << >>],
      Dir(NameDated \o <<" ", "(", "1", ")">>, << File("txt", NoDate) >>),
      Dir(<<"b">>, << File("jpg", D1), File("jpg", NoDate) >>),
      Dir(<<"b">>, << [File("jpg", D1) EXCEPT !.skip = "file"], File("mp4", NoDate) >>) }

Trees ==
    { t \in SUBSET Catalog :
        /\ Cardinality(t) <= MaxFolders
        /\ \A e1, e2 \in t : e1.name = e2.name => e1 = e2 }

\* --confidence, as a fraction.
Thresholds == { [num |-> 1, den |-> 2], [num |-> 3, den |-> 5] }

Cases == {"title", "upper", "lower", "sentence"}

\* How the service may answer in a run of the folder loop.
Body == <<"*", "b", "*">>

Ok200 == [kind |-> "200", wellformed |-> TRUE, body |-> Body]

Busy == [kind |-> "429", wellformed |-> FALSE, body |-> <<>>]

Services ==
    { [models |-> [kind |-> "ok", models |-> <<"gemma-2-9b-it">>], posts |-> <<Busy, Ok200>>] }

NoService == [models |-> [kind |-> "raise", models |-> <<>>], posts |-> <<Busy>>]

Names(entries) == { e.name : e \in entries }

EntryOf(entries, name) == CHOOSE e \in entries : e.name = name

\* ------------------------------------------------------------ os.rename

\* The classes of exception os.rename raises.
RenameErrors == {"PermissionError"}

\* os.rename(src, dst) on a POSIX file system: it may fail for a reason of
\* its own (permissions, device); it replaces an empty directory at dst; it
\* raises when dst is a file or a directory that is not empty.
os_rename(entries, src, dst) ==
    LET moved == [EntryOf(entries, src) EXCEPT !.name = dst]
        failures == { [ok |-> FALSE, exc |-> x, fs |-> entries] : x \in RenameErrors }
    IN  IF src \notin Names(entries)
        THEN { [ok |-> FALSE, exc |-> "FileNotFoundError", fs |-> entries] }
        ELSE IF dst \notin Names(entries)
        THEN failures \cup { [ok |-> TRUE, exc |-> "", fs |-> (entries \ {EntryOf(entries, src)}) \cup {moved}] }
        ELSE IF EntryOf(entries, dst).isdir /\ EntryOf(entries, dst).files = <<>>
        THEN failures \cup
             { [ok |-> TRUE, exc |-> "",
                fs |-> (entries \ {EntryOf(entries, src), EntryOf(entries, dst)}) \cup {moved}] }
        ELSE { [ok |-> FALSE, exc |-> "OSError", fs |-> entries] }

\* ------------------------------------------------------ process_folders

\* subdirs = sorted([f.path for f in os.scandir(target_path) if f.is_dir()])
ScanSubdirs(entries) == Sorted({ e.name : e \in { x \in entries : x.isdir } })

\* `if date_stats is None` in place of `if not date_stats`.
date_stats_is_None(c) == c.none

\* if not date_stats: date_stats is None or an empty Counter.
not_date_stats(c) == c.none \/ c.date_counter = <<>>

\* The threshold test made only when --live is given.
confidence_lt_live_only(count, total_files, threshold) ==
    args.live /\ count * threshold.den < threshold.num * total_files

\* `<=` in place of `<`.
confidence_le(count, total_files, threshold) ==
    count * threshold.den <= threshold.num * total_files

\* if confidence < args.confidence, on the fractions count/total_files and
\* num/den.
confidence_lt(count, total_files, threshold) ==
    count * threshold.den < threshold.num * total_files

\* `except FileNotFoundError` in place of `except OSError`.
except_FileNotFoundError(exc) == exc = "FileNotFoundError"

\* except OSError: the classes the handler of the rename catches.
except_OSError(exc) == exc \in {"OSError", "PermissionError", "FileNotFoundError"}

\* One pass of the folder loop up to the rename, for folder_name: what is
\* collected, the confidence, the names, and how the pass ends ("RENAME":
\* it goes on to the rename or to the dry-run line).
Decide(entries, a, selected, svc, folder_name) ==
    LET files == IF folder_name \in Names(entries)
                 THEN EntryOf(entries, folder_name).files ELSE <<>>
        c == collect_dates_recursive(files, a.non_interactive)
        base == [folder_name |-> folder_name, date_stats |-> c.date_counter,
                 total_files |-> c.total_files, count |-> 0, date |-> <<>>,
                 divided |-> FALSE, new_name |-> <<>>, new_full_path |-> <<>>,
                 selected |-> selected, tag |-> "SKIP_NO_DATA"]
    IN  IF not_date_stats(c) THEN base
        ELSE IF c.date_counter = <<>> THEN [base EXCEPT !.tag = "IndexError"]
        ELSE LET mc == MostCommon(c.date_counter)
                 scored == [base EXCEPT !.count = mc.n, !.date = mc.date,
                                        !.divided = c.total_files > 0]
                 count == IF c.total_files > 0 THEN mc.n ELSE 0
                 total == IF c.total_files > 0 THEN c.total_files ELSE 1
             IN  IF confidence_lt(count, total, a.confidence)
                 THEN [scored EXCEPT !.tag = "SKIP_LOW_CONFIDENCE"]
                 ELSE LET clean_base == clean_folder_name_regex(folder_name, a.case)
                          ai == ai_fix_spelling(clean_base, a.ai_api_key, selected, svc)
                          final_name == ai.text
                          new_name == mc.date \o <<" ">> \o final_name
                          named == [scored EXCEPT !.new_name = new_name,
                                                  !.selected = ai.selected]
                      IN  IF ai.raised THEN [named EXCEPT !.tag = "Exception"]
                          ELSE IF new_name = folder_name
                          THEN [named EXCEPT !.tag = "NO_ACTION"]
                          ELSE [named EXCEPT
                                  !.tag = "RENAME",
                                  !.new_full_path = get_unique_path(new_name, Names(entries))]

\* The report's entry for a folder the loop passes over without a look.
Unexamined(folder_name) ==
    [folder_name |-> folder_name, date_stats |-> <<>>, total_files |-> 0, count |-> 0,
     date |-> <<>>, divided |-> FALSE, new_name |-> <<>>, new_full_path |-> <<>>,
     selected |-> SELECTED_MODEL, tag |-> "IGNORED"]

InLoop == pc = "loop" /\ idx <= Len(subdirs)

Quiet == UNCHANGED << service, run, subdirs, start_fs, prev, call, ret >>

\* The start of process_folders, to the first pass of the loop (the target
\* path exists).
Start ==
    /\ pc = "start"
    /\ pc' = "loop"
    /\ subdirs' = ScanSubdirs(fs)
    /\ idx' = 1
    /\ renamed_list' = <<>>
    /\ skipped_list' = <<>>
    /\ error_list' = <<>>
    /\ report' = <<>>
    /\ renames' = <<>>
    /\ start_fs' = fs
    /\ SELECTED_MODEL' = "None"
    /\ cur' = Unexamined(<<>>)
    /\ UNCHANGED << fs, args, service, run, prev, call, ret >>

\* if folder_name in IGNORED_DIRS: continue
SkipIgnored ==
    /\ InLoop
    /\ subdirs[idx] \in IGNORED_DIRS
    /\ idx' = idx + 1
    /\ report' = Append(report, Unexamined(subdirs[idx]))
    /\ UNCHANGED << fs, args, SELECTED_MODEL, pc, renamed_list, skipped_list,
                    error_list, renames, cur >>
    /\ Quiet

\* A pass of the loop from collect_dates_recursive to get_unique_path: the
\* folder's outcome is decided, nothing is recorded or renamed yet.
Examine ==
    /\ InLoop
    /\ subdirs[idx] \notin IGNORED_DIRS
    /\ pc' = "decided"
    /\ cur' = Decide(fs, args, SELECTED_MODEL, service, subdirs[idx])
    /\ SELECTED_MODEL' = cur'.selected
    /\ UNCHANGED << fs, args, idx, renamed_list, skipped_list, error_list, report,
                    renames >>
    /\ Quiet

\* CASE 1: no metadata.
SkipNoData ==
    /\ pc = "decided"
    /\ cur.tag = "SKIP_NO_DATA"
    /\ skipped_list' = Append(skipped_list, <<subdirs[idx], "Tiada metadata">>)
    /\ report' = Append(report, cur)
    /\ idx' = idx + 1
    /\ pc' = "loop"
    /\ UNCHANGED << fs, args, SELECTED_MODEL, renamed_list, error_list, renames, cur >>
    /\ Quiet

\* CASE 2: low confidence.
SkipLowConfidence ==
    /\ pc = "decided"
    /\ cur.tag = "SKIP_LOW_CONFIDENCE"
    /\ skipped_list' = Append(skipped_list, <<subdirs[idx], "Low Confidence">>)
    /\ report' = Append(report, cur)
    /\ idx' = idx + 1
    /\ pc' = "loop"
    /\ UNCHANGED << fs, args, SELECTED_MODEL, renamed_list, error_list, renames, cur >>
    /\ Quiet

\* CASE 3: the name is already the new name.
NoAction ==
    /\ pc = "decided"
    /\ cur.tag = "NO_ACTION"
    /\ report' = Append(report, cur)
    /\ idx' = idx + 1
    /\ pc' = "loop"
    /\ UNCHANGED << fs, args, SELECTED_MODEL, renamed_list, skipped_list, error_list,
                    renames, cur >>
    /\ Quiet

\* if args.live: os.rename succeeds.
RenameOk ==
    /\ pc = "decided"
    /\ cur.tag = "RENAME"
    /\ args.live
    /\ \E o \in os_rename(fs, subdirs[idx], cur.new_full_path) :
          /\ o.ok
          /\ fs' = o.fs
    /\ renames' = Append(renames, [src |-> subdirs[idx], dst |-> cur.new_full_path,
                                   existed |-> cur.new_full_path \in Names(fs),
                                   ok |-> TRUE])
    /\ renamed_list' = Append(renamed_list, <<subdirs[idx], cur.new_name>>)
    /\ report' = Append(report, cur)
    /\ idx' = idx + 1
    /\ pc' = "loop"
    /\ UNCHANGED << args, SELECTED_MODEL, skipped_list, error_list, cur >>
    /\ Quiet

\* if args.live: os.rename raises and except OSError catches it.
RenameError ==
    /\ pc = "decided"
    /\ cur.tag = "RENAME"
    /\ args.live
    /\ \E o \in os_rename(fs, subdirs[idx], cur.new_full_path) :
          /\ ~o.ok
          /\ except_OSError(o.exc)
          /\ error_list' = Append(error_list, <<subdirs[idx], o.exc>>)
    /\ renames' = Append(renames, [src |-> subdirs[idx], dst |-> cur.new_full_path,
                                   existed |-> cur.new_full_path \in Names(fs),
                                   ok |-> FALSE])
    /\ report' = Append(report, [cur EXCEPT !.tag = "ERROR"])
    /\ idx' = idx + 1
    /\ pc' = "loop"
    /\ UNCHANGED << fs, args, SELECTED_MODEL, renamed_list, skipped_list, cur >>
    /\ Quiet

\* else: the dry-run line.
DryRun ==
    /\ pc = "decided"
    /\ cur.tag = "RENAME"
    /\ ~args.live
    /\ renamed_list' = Append(renamed_list, <<subdirs[idx], cur.new_name>>)
    /\ report' = Append(report, cur)
    /\ idx' = idx + 1
    /\ pc' = "loop"
    /\ UNCHANGED << fs, args, SELECTED_MODEL, skipped_list, error_list, renames, cur >>
    /\ Quiet

\* An exception no handler of the loop catches: most_common(1)[0] on an
\* empty Counter, an exception out of ai_fix_spelling, or an exception of
\* os.rename that `except OSError` does not catch.
Uncaught ==
    \/ cur.tag \in {"IndexError", "Exception"}
    \/ /\ cur.tag = "RENAME"
       /\ args.live
       /\ \E o \in os_rename(fs, subdirs[idx], cur.new_full_path) :
             ~o.ok /\ ~except_OSError(o.exc)

\* The end of process_folders: the final report after the loop, or the
\* traceback of an uncaught exception.
Finish ==
    /\ IF pc = "loop"
       THEN /\ idx > Len(subdirs)
            /\ pc' = "summary"
            /\ report' = report
       ELSE /\ pc = "decided"
            /\ Uncaught
            /\ pc' = "aborted"
            /\ report' = Append(report, [cur EXCEPT !.tag = "RAISED"])
    /\ UNCHANGED << fs, args, SELECTED_MODEL, idx, renamed_list, skipped_list,
                    error_list, renames, cur >>
    /\ Quiet

\* The script is invoked again over the same root, live or not, with the
\* other options as before.
Again ==
    /\ pc = "summary"
    /\ run < MaxRuns
    /\ run' = run + 1
    /\ pc' = "start"
    /\ prev' = Append(prev, [live |-> args.live, report |-> report, renames |-> renames])
    /\ \E live \in BOOLEAN : args' = [args EXCEPT !.live = live]
    /\ UNCHANGED << fs, service, SELECTED_MODEL, subdirs, idx, renamed_list,
                    skipped_list, error_list, report, renames, start_fs, call, ret, cur >>

Init ==
    /\ fs \in Trees
    /\ \E live \in BOOLEAN, threshold \in Thresholds, case \in Cases :
          \/ /\ args = [live |-> live, confidence |-> threshold, case |-> case,
                        non_interactive |-> TRUE, ai_api_key |-> "None"]
             /\ service = NoService
          \/ /\ args = [live |-> live, confidence |-> threshold, case |-> case,
                        non_interactive |-> TRUE, ai_api_key |-> "key"]
             /\ service \in Services
    /\ SELECTED_MODEL = "None"
    /\ run = 1
    /\ pc = "start"
    /\ subdirs = <<>>
    /\ idx = 1
    /\ renamed_list = <<>>
    /\ skipped_list = <<>>
    /\ error_list = <<>>
    /\ report = <<>>
    /\ renames = <<>>
    /\ start_fs = fs
    /\ prev = <<>>
    /\ call = <<>>
    /\ ret = <<>>
    /\ cur = Unexamined(<<>>)

Next ==
    \/ Start
    \/ SkipIgnored
    \/ Examine
    \/ SkipNoData
    \/ SkipLowConfidence
    \/ NoAction
    \/ RenameOk
    \/ RenameError
    \/ DryRun
    \/ Finish
    \/ Again

Spec == Init /\ [][Next]_vars

\* -------------------------------------------- get_unique_path on its own

\* The largest n for which "P (n)" may exist beforehand.
MaxSuffix == 3

Suffixed(base_path, n) == base_path \o <<" ", "(">> \o Str(n) \o <<")">>

\* The paths that may exist when get_unique_path is called.
CandidatePaths ==
    {NameT, NameDated} \cup { Suffixed(NameT, n) : n \in 1..MaxSuffix }

Idle ==
    /\ fs = {}
    /\ args = [live |-> FALSE, confidence |-> [num |-> 3, den |-> 5], case |-> "title",
               non_interactive |-> TRUE, ai_api_key |-> "None"]
    /\ run = 1
    /\ subdirs = <<>>
    /\ idx = 1
    /\ renamed_list = <<>>
    /\ skipped_list = <<>>
    /\ error_list = <<>>
    /\ report = <<>>
    /\ renames = <<>>
    /\ start_fs = {}
    /\ prev = <<>>
    /\ cur = [folder_name |-> <<>>, date_stats |-> <<>>, total_files |-> 0, count |-> 0,
              date |-> <<>>, divided |-> FALSE, new_name |-> <<>>, new_full_path |-> <<>>,
              selected |-> "None", tag |-> "IGNORED"]

InitUnique ==
    /\ Idle
    /\ service = NoService
    /\ SELECTED_MODEL = "None"
    /\ pc = "call"
    /\ call \in [base_path : {NameT, Suffixed(NameT, 1)}, existing : SUBSET CandidatePaths]
    /\ ret = <<>>

CallUniquePath ==
    /\ pc = "call"
    /\ pc' = "returned"
    /\ ret' = get_unique_path(call.base_path, call.existing)
    /\ UNCHANGED << fs, args, service, SELECTED_MODEL, run, subdirs, idx, renamed_list,
                    skipped_list, error_list, report, renames, start_fs, prev, call, cur >>

SpecUnique == InitUnique /\ [][CallUniquePath]_vars

\* -------------------------------------------- ai_fix_spelling on its own

\* What the models endpoint may answer.
ModelAnswers ==
    { [kind |-> "raise", models |-> <<>>],
      [kind |-> "status", models |-> <<>>],
      [kind |-> "ok", models |-> <<>>],
      [kind |-> "ok", models |-> <<"gemini-pro", "gemma-2-9b-it", "gemma-3-4b-it", "gemma-3-27b-it">>] }

\* What the service may answer to one POST.
PostAnswers ==
    { [kind |-> "raise", wellformed |-> FALSE, body |-> <<>>],
      Ok200,
      [kind |-> "200", wellformed |-> FALSE, body |-> <<>>],
      Busy,
      [kind |-> "status", wellformed |-> FALSE, body |-> <<>>] }

InitAi ==
    /\ Idle
    /\ SELECTED_MODEL \in {"None", "gemma-2-9b-it"}
    /\ service \in [models : ModelAnswers, posts : [1..(max_retries + 1) -> PostAnswers]]
    /\ pc = "call"
    /\ call \in [text : {Namet}, api_key : {"None", "key"}]
    /\ ret = [text |-> <<>>, posts |-> 0, raised |-> FALSE, ok200 |-> FALSE,
              selected |-> SELECTED_MODEL]

CallAiFixSpelling ==
    /\ pc = "call"
    /\ pc' = "returned"
    /\ ret' = ai_fix_spelling(call.text, call.api_key, SELECTED_MODEL, service)
    /\ SELECTED_MODEL' = ret'.selected
    /\ UNCHANGED << fs, args, service, run, subdirs, idx, renamed_list, skipped_list,
                    error_list, report, renames, start_fs, prev, call, cur >>

SpecAi == InitAi /\ [][CallAiFixSpelling]_vars

\* ----------------------------------------------------------- properties

Passed == { i \in 1..Len(report) : report[i].tag # "IGNORED" }

Dirs(entries) == { e \in entries : e.isdir }

RECURSIVE SumCounts(_)
SumCounts(counter) ==
    IF counter = <<>> THEN 0 ELSE Head(counter).n + SumCounts(Tail(counter))

MaxCount(counter) ==
    CHOOSE m \in { counter[j].n : j \in 1..Len(counter) } :
        \A j \in 1..Len(counter) : counter[j].n <= m

\* C2: for every folder with a non-empty tally, the confidence the decision
\* uses (count / total_files) equals the largest count of the tally divided
\* by the sum of its counts, and lies in (0, 1].
C2_ConfidenceIsMaxOverSum ==
    \A i \in Passed :
        report[i].date_stats # <<>> =>
            /\ report[i].divided
            /\ report[i].count * SumCounts(report[i].date_stats)
                 = MaxCount(report[i].date_stats) * report[i].total_files
            /\ 0 < report[i].count
            /\ report[i].count <= report[i].total_files

\* C3: a folder with a non-empty tally is skipped for low confidence exactly
\* when count / total_files is strictly below the threshold; at equality it
\* goes on to the naming step (no action, or a rename that succeeds or fails).
C3_ThresholdIsStrict ==
    \A i \in Passed :
        report[i].date_stats # <<>> =>
            /\ (report[i].tag = "SKIP_LOW_CONFIDENCE")
                 <=> (report[i].count * args.confidence.den
                        < args.confidence.num * report[i].total_files)
            /\ (report[i].count * args.confidence.den
                  = args.confidence.num * report[i].total_files)
                 => report[i].tag \in {"RENAME", "NO_ACTION", "ERROR"}

\* A folder whose confidence equals the threshold got the rename decision.
C3_Witness ==
    \E i \in Passed :
        /\ report[i].date_stats # <<>>
        /\ report[i].count * args.confidence.den
             = args.confidence.num * report[i].total_files
        /\ report[i].tag = "RENAME"

\* C4: every enumerated media file without an embedded date is counted
\* under its last-modified date, so the counts of the tally sum to the
\* number of enumerated media files.
C4_FallbackCountsEveryFile ==
    /\ \A i \in Passed : SumCounts(report[i].date_stats) = report[i].total_files
    /\ (pc = "decided" /\ subdirs[idx] \in Names(fs)) =>
          LET all_files == Walked(EntryOf(fs, subdirs[idx]).files)
          IN  /\ SumCounts(cur.date_stats) = Len(all_files)
              /\ \A k \in 1..Len(all_files) :
                    all_files[k].meta = NoDate =>
                        \E j \in 1..Len(cur.date_stats) :
                            cur.date_stats[j].date = Strftime(all_files[k].mtime)

\* C5: a folder whose tally is empty ends as SKIP_NO_DATA: it is in the
\* skipped list, no division was evaluated, no name or path was computed
\* and no rename was attempted for it.
C5_EmptyTallySkips ==
    \A i \in Passed :
        report[i].date_stats = <<>> =>
            /\ report[i].tag = "SKIP_NO_DATA"
            /\ ~report[i].divided
            /\ report[i].new_full_path = <<>>
            /\ \E k \in 1..Len(skipped_list) : skipped_list[k][1] = report[i].folder_name
            /\ \A k \in 1..Len(renames) : renames[k].src # report[i].folder_name
            /\ \A k \in 1..Len(renamed_list) : renamed_list[k][1] # report[i].folder_name

\* A folder with media files, none of which yields a date, was skipped.
C5_Witness ==
    \E i \in Passed :
        /\ report[i].date_stats = <<>>
        /\ report[i].total_files > 0
        /\ report[i].tag = "SKIP_NO_DATA"

\* C6: get_unique_path(P) is P when P does not exist; when P exists it is
\* "P (n)" for the smallest n >= 1 whose "P (n)" does not exist; the path
\* returned never exists.
C6_UniquePathIsFirstFree ==
    pc = "returned" =>
        /\ ret \notin call.existing
        /\ call.base_path \notin call.existing => ret = call.base_path
        /\ call.base_path \in call.existing =>
              \E n \in 1..(Cardinality(call.existing) + 1) :
                  /\ ret = Suffixed(call.base_path, n)
                  /\ \A k \in 1..(n - 1) : Suffixed(call.base_path, k) \in call.existing

\* P, "P (1)" and "P (2)" exist and "P (3)" was returned.
C6_Witness ==
    /\ pc = "returned"
    /\ call.base_path = NameT
    /\ {NameT, Suffixed(NameT, 1), Suffixed(NameT, 2)} \subseteq call.existing
    /\ ret = Suffixed(NameT, 3)

\* A pass that has examined its folder ends by recording an outcome.
RecordOutcome ==
    SkipNoData \/ SkipLowConfidence \/ NoAction \/ RenameOk \/ RenameError \/ DryRun

\* C7: a rename that fails in a live run is recorded in the error list and
\* not in the renamed list; no exception ends the loop, every pass can end
\* by recording its outcome, and at the final summary every folder of the
\* batch has its outcome.
C7_RenameFailureIsContained ==
    /\ pc # "aborted"
    /\ \A k \in 1..Len(renames) :
          ~renames[k].ok =>
              /\ \E j \in 1..Len(error_list) : error_list[j][1] = renames[k].src
              /\ \A j \in 1..Len(renamed_list) : renamed_list[j][1] # renames[k].src
              /\ \E i \in Passed :
                    report[i].folder_name = renames[k].src /\ report[i].tag = "ERROR"
    /\ pc = "decided" => (~Uncaught /\ ENABLED RecordOutcome)
    /\ pc = "summary" => Len(report) = Len(subdirs)

\* A rename failed and a later folder of the same run was renamed.
C7_Witness ==
    /\ pc = "summary"
    /\ \E i, j \in Passed :
          /\ i < j
          /\ report[i].tag = "ERROR"
          /\ report[j].tag = "RENAME"

\* A dry run followed by a live run over the same tree, with the same
\* options, in which no rename failed.
DryThenLive ==
    /\ run >= 2
    /\ pc = "summary"
    /\ ~prev[run - 1].live
    /\ args.live
    /\ \A k \in 1..Len(renames) : renames[k].ok

\* C8 as stated: the dry run and the live run reach, for every folder, the
\* same outcome, the same proposed name and the same destination path.
C8_DryRunSameDestination ==
    DryThenLive =>
        /\ Len(report) = Len(prev[run - 1].report)
        /\ \A i \in 1..Len(report) :
              /\ report[i].tag = prev[run - 1].report[i].tag
              /\ report[i].new_name = prev[run - 1].report[i].new_name
              /\ report[i].new_full_path = prev[run - 1].report[i].new_full_path

\* C8 amended: the dry run and the live run reach, for every folder, the
\* same outcome, chosen date, count and proposed name, and the same
\* destination path for every folder up to the first one that is renamed.
C8_DryRunSameDecision ==
    DryThenLive =>
        /\ Len(report) = Len(prev[run - 1].report)
        /\ \A i \in 1..Len(report) :
              /\ report[i].tag = prev[run - 1].report[i].tag
              /\ report[i].new_name = prev[run - 1].report[i].new_name
              /\ report[i].date = prev[run - 1].report[i].date
              /\ report[i].count = prev[run - 1].report[i].count
              /\ (\A j \in 1..(i - 1) : report[j].tag # "RENAME")
                    => report[i].new_full_path = prev[run - 1].report[i].new_full_path

\* A dry run and a live run after it both decided to rename two folders,
\* and the live run's second destination is not the dry run's.
C8_Witness ==
    /\ DryThenLive
    /\ \E i \in 1..Len(report) :
          /\ report[i].tag = "RENAME"
          /\ prev[run - 1].report[i].tag = "RENAME"
          /\ report[i].new_full_path # prev[run - 1].report[i].new_full_path

\* C9: ai_fix_spelling makes at most 3 POSTs, lets no exception out, and
\* returns its input when no POST it made was answered by a well-formed
\* HTTP 200.
C9_AiBoundedPassthrough ==
    pc = "returned" =>
        /\ ret.posts <= 3
        /\ ~ret.raised
        /\ (\A k \in 1..ret.posts :
                ~(service.posts[k].kind = "200" /\ service.posts[k].wellformed))
              => ret.text = call.text

\* Three POSTs were answered by 429, the input came back, and the answer
\* the service held for a fourth POST was never asked for.
C9_Witness ==
    /\ pc = "returned"
    /\ call.api_key = "key"
    /\ \A k \in 1..3 : service.posts[k].kind = "429"
    /\ service.posts[4] = Ok200
    /\ ret.posts = 3
    /\ ret.text = call.text

\* A live run followed by a live run over the root it left, without the
\* remote rewrite, the first run's renames all having succeeded.
LiveThenLive ==
    /\ run >= 2
    /\ pc = "summary"
    /\ prev[run - 1].live
    /\ args.live
    /\ args.ai_api_key = "None"
    /\ \A k \in 1..Len(prev[run - 1].renames) : prev[run - 1].renames[k].ok

\* C10: a second live run performs no rename, and every folder the first
\* run renamed yields NO_ACTION in it.
C10_SecondLiveRunIsNoOp ==
    LiveThenLive =>
        /\ renames = <<>>
        /\ \A k \in 1..Len(prev[run - 1].renames) :
              \E i \in Passed :
                  /\ report[i].folder_name = prev[run - 1].renames[k].dst
                  /\ report[i].tag = "NO_ACTION"

=============================================================================
